---- MODULE Spec2Model ----
(***************************************************************************)
(* Model of the offline conversation validator of WarungAI                 *)
(* (scripts/test_offline.py, validate_conversation) and of its live        *)
(* replay (scripts/test_simulation.py, simulate_conversation).             *)
(*                                                                         *)
(* A scenario is a list of messages.  Messages, order actions, order items *)
(* and payments are Python dicts; they are modelled as TLA+ records whose  *)
(* DOMAIN is the set of keys present, so that `'k' in d` is                *)
(* `"k" \in DOMAIN d`.  One loop iteration of validate_conversation is one *)
(* step of the model; the messages of the scenario are chosen one at a     *)
(* time, which yields every scenario of at most MaxMsgs messages.  A       *)
(* finding ("[msg-3] Missing 'text' field") is modelled by its text        *)
(* without the message id.                                                 *)
(*                                                                         *)
(* Money is counted in thousandths of a currency unit (15 is 15000), so    *)
(* the tolerance 0.01 of the payment check is the integer 10.              *)
(***************************************************************************)
EXTENDS Integers, Sequences, FiniteSets, TLC

\* Longest scenario explored.
MaxMsgs == 3

\* JSON null / Python None as a numeric field value (no price is negative).
None == -1

\* 0.01 in thousandths: the tolerance of the change check.
Tolerance == 10

Has(d, k) == k \in DOMAIN d

\* d.get(k, default)
Get(d, k, default) == IF Has(d, k) THEN d[k] ELSE default

Abs(x) == IF x < 0 THEN -x ELSE x

(***************************************************************************)
(* str.lower() on the item names of the model.                             *)
(***************************************************************************)
Lower(s) ==
    CASE s = "Nasi Goreng" -> "nasi goreng"
      [] s = "NASI GORENG" -> "nasi goreng"
      [] s = "Es Teh"      -> "es teh"
      [] s = "Es Teh Manis" -> "es teh manis"
      [] s = "Sate Ayam"    -> "sate ayam"
      [] s = "Es Kopi Susu" -> "es kopi susu"
      [] s = "Ayam Goreng"  -> "ayam goreng"
      [] s = "Soto Ayam"    -> "soto ayam"
      [] s = "Jus Mangga"   -> "jus mangga"
      [] s = "Kerupuk"      -> "kerupuk"
      [] OTHER             -> s

(***************************************************************************)
(* The audio files present under TTS_DIR.                                  *)
(***************************************************************************)
AudioFiles == {"/tts/msg-1_seller.mp3"}

AudioExists(path) == path \in AudioFiles

(***************************************************************************)
(* The fold of one order action into current_order.                        *)
(***************************************************************************)

\* Existing with the entry's name compared as stored, not lowercased.
ExistingExact(order, key) ==
    LET hits == {k \in 1..Len(order) : order[k].name = key}
    IN  IF hits = {} THEN 0 ELSE CHOOSE k \in hits : \A j \in hits : k <= j

\* next((o for o in current_order if o['name'].lower() == key), None),
\* as the index of the entry, 0 for None.
Existing(order, key) ==
    LET hits == {k \in 1..Len(order) : Lower(order[k].name) = key}
    IN  IF hits = {} THEN 0 ELSE CHOOSE k \in hits : \A j \in hits : k <= j

\* Reading item['name'] raises KeyError when the key is absent.  The
\* generator of the lookup reads it once per entry scanned, so with an empty
\* order only the insertion of `add` reads it.
ItemRaises(type, order, item) ==
    /\ ~Has(item, "name")
    /\ (type = "add" \/ order # <<>>)

\* AddItem without the lookup: every item is appended.
AddItemAppend(order, item) ==
    Append(order, [name     |-> item.name,
                   quantity |-> Get(item, "quantity", 1),
                   price    |-> Get(item, "price", 0)])

AddItem(order, item) ==
    LET e == Existing(order, Lower(item.name))
    IN  IF e # 0
        THEN [order EXCEPT ![e].quantity = @ + Get(item, "quantity", 1)]
        ELSE Append(order, [name     |-> item.name,
                            quantity |-> Get(item, "quantity", 1),
                            price    |-> Get(item, "price", 0)])

\* UpdateItem that also takes the price of the item.
UpdateItemPrice(order, item) ==
    LET e == Existing(order, Lower(item.name))
    IN  IF e # 0
        THEN [order EXCEPT ![e].quantity = Get(item, "quantity", @),
                           ![e].price = Get(item, "price", @)]
        ELSE order

UpdateItem(order, item) ==
    LET e == Existing(order, Lower(item.name))
    IN  IF e # 0
        THEN [order EXCEPT ![e].quantity = Get(item, "quantity", @)]
        ELSE order

RemoveItem(order, item) ==
    SelectSeq(order, LAMBDA o : Lower(o.name) # Lower(item.name))

\* ApplyItem that handles an update as an add.
ApplyItemUpdateAsAdd(type, order, item) ==
    CASE type = "add"    -> AddItem(order, item)
      [] type = "update" -> AddItem(order, item)
      [] type = "remove" -> RemoveItem(order, item)
      [] OTHER           -> order

ApplyItem(type, order, item) ==
    CASE type = "add"    -> AddItem(order, item)
      [] type = "update" -> UpdateItem(order, item)
      [] type = "remove" -> RemoveItem(order, item)
      [] OTHER           -> order

\* The loop over the items of one action: the order reached and whether the
\* loop ran to its end (ok) or stopped at an item that raised.
RECURSIVE ApplyItems(_, _, _)
ApplyItems(type, order, items) ==
    IF items = <<>>
    THEN [order |-> order, ok |-> TRUE]
    ELSE IF ItemRaises(type, order, Head(items))
         THEN [order |-> order, ok |-> FALSE]
         ELSE ApplyItems(type, ApplyItem(type, order, Head(items)), Tail(items))

ValidTypes == {"add", "update", "remove"}

\* action.get('type') as a string; a missing key reads as Python None.
ActionType(action) == Get(action, "type", "None")

\* ApplyAction that folds the items of an unrecognised type as an add.
ApplyActionLenient(order, action) ==
    ApplyItems(IF ActionType(action) \in ValidTypes THEN ActionType(action) ELSE "add",
               order, Get(action, "items", <<>>))

ApplyAction(order, action) ==
    IF ActionType(action) \in ValidTypes
    THEN ApplyItems(ActionType(action), order, Get(action, "items", <<>>))
    ELSE [order |-> order, ok |-> TRUE]

(***************************************************************************)
(* The total of an order and the change check.                             *)
(***************************************************************************)

\* PriceOrZero without the `or 0`: a null price is used as it is stored.
PriceAsStored(entry) ==
    IF Has(entry, "price") THEN entry.price ELSE 0

\* (item.get('price', 0) or 0)
PriceOrZero(entry) ==
    IF Has(entry, "price") /\ entry.price # None THEN entry.price ELSE 0

RECURSIVE Total(_)
Total(order) ==
    IF order = <<>> THEN 0
    ELSE PriceOrZero(Head(order)) * Head(order).quantity + Total(Tail(order))

\* Mismatch with the tolerance itself flagged (>= for >).
MismatchInclusive(order, payment) ==
    LET expected_change == Get(payment, "amount", 0) - Total(order)
        actual_change   == Get(payment, "change", 0)
    IN  Abs(expected_change - actual_change) >= Tolerance

Mismatch(order, payment) ==
    LET expected_change == Get(payment, "amount", 0) - Total(order)
        actual_change   == Get(payment, "change", 0)
    IN  Abs(expected_change - actual_change) > Tolerance

(***************************************************************************)
(* The findings of one message, in the order the code appends them.        *)
(***************************************************************************)
RoleErrors(m) ==
    IF ~Has(m, "role") \/ m.role = ""
    THEN <<"Missing 'role' field">>
    ELSE IF m.role \notin {"customer", "seller"}
         THEN <<"Invalid role">>
         ELSE <<>>

TextErrors(m) ==
    IF ~Has(m, "text") \/ m.text = "" THEN <<"Missing 'text' field">> ELSE <<>>

AudioWarnings(m) ==
    IF ~Has(m, "audioPath") \/ m.audioPath = ""
    THEN <<"Missing 'audioPath' field">>
    ELSE IF ~AudioExists(m.audioPath)
         THEN <<"Audio file not found">>
         ELSE <<>>

TypeErrors(action) ==
    IF ActionType(action) \notin ValidTypes
    THEN <<"Invalid orderAction type">>
    ELSE <<>>

RECURSIVE ItemErrors(_)
ItemErrors(items) ==
    IF items = <<>> THEN <<>>
    ELSE (IF Has(Head(items), "name")
          THEN <<>> ELSE <<"Order item missing 'name'">>)
         \o (IF Has(Head(items), "quantity")
             THEN <<>> ELSE <<"Order item missing 'quantity'">>)
         \o ItemErrors(Tail(items))

RECURSIVE ItemWarnings(_)
ItemWarnings(items) ==
    IF items = <<>> THEN <<>>
    ELSE (IF Has(Head(items), "price")
          THEN <<>> ELSE <<"Order item missing 'price'">>)
         \o ItemWarnings(Tail(items))

ActionErrors(m) ==
    IF Has(m, "orderAction")
    THEN TypeErrors(m.orderAction)
         \o ItemErrors(Get(m.orderAction, "items", <<>>))
    ELSE <<>>

ActionWarnings(m) ==
    IF Has(m, "orderAction")
    THEN ItemWarnings(Get(m.orderAction, "items", <<>>))
    ELSE <<>>

PaymentErrors(payment) ==
    (IF Has(payment, "amount") THEN <<>> ELSE <<"Payment missing 'amount'">>)
    \o (IF Has(payment, "change") THEN <<>> ELSE <<"Payment missing 'change'">>)

PaymentWarnings(order, payment) ==
    (IF Has(payment, "method") THEN <<>> ELSE <<"Payment missing 'method'">>)
    \o (IF order # <<>> /\ Mismatch(order, payment)
        THEN <<"Change mismatch">> ELSE <<>>)

\* The print block at the end of the loop body reads role.upper(), text[:60],
\* action['type'] and item['name'] without a default.
PrintRaises(m) ==
    \/ ~Has(m, "role")
    \/ ~Has(m, "text")
    \/ /\ Has(m, "orderAction")
       /\ \/ ~Has(m.orderAction, "type")
          \/ \E k \in 1..Len(Get(m.orderAction, "items", <<>>)) :
                ~Has(m.orderAction.items[k], "name")

(***************************************************************************)
(* The scenarios explored: the messages a scenario is made of.             *)
(***************************************************************************)

\* d with key k set to v (a dict literal with one more key).
With(d, k, v) == [x \in DOMAIN d \cup {k} |-> IF x = k THEN v ELSE d[x]]

Names == {"Nasi Goreng", "NASI GORENG", "Es Teh"}

\* A message with every required and optional field of the header.
PlainMessage ==
    [role |-> "customer", text |-> "Satu lagi", audioPath |-> "/tts/msg-1_seller.mp3"]

Action(type, items) == With(PlainMessage, "orderAction", [type |-> type, items |-> items])

Paid(payment) == With(PlainMessage, "paymentReceived", payment)

\* Well-formed messages with an add, update or remove action.
FoldMessages ==
    {Action("add", <<it>>) :
        it \in [name : Names, quantity : {2}, price : {4500}]
               \cup [name : Names, price : {15000}]
               \cup [name : Names, quantity : {2}]}
    \cup {Action("add", <<[name |-> "Nasi Goreng", quantity |-> 2, price |-> 4500],
                          [name |-> "NASI GORENG", price |-> 15000]>>),
          Action("add", <<[name |-> "NASI GORENG", quantity |-> 2],
                          [name |-> "Es Teh", quantity |-> 2, price |-> 4500]>>)}
    \cup {Action("update", <<it>>) :
        it \in [name : Names, quantity : {5}, price : {15000}] \cup [name : Names]}
    \cup {Action("update", <<[name |-> "NASI GORENG", quantity |-> 5],
                             [name |-> "Es Teh", quantity |-> 3, price |-> 15000]>>)}
    \cup {Action("remove", <<it>>) :
        it \in [name : Names, quantity : {2}, price : {4500}] \cup [name : Names]}
    \cup {Action("remove", <<[name |-> "NASI GORENG", quantity |-> 1],
                             [name |-> "Es Teh", quantity |-> 1]>>)}

\* Messages that build an order with and without prices, and payments around
\* the tolerance of the change check (the order of 2 x 15000 leaves 10000
\* of 40000).
PaymentMessages ==
    {Action("add", <<it>>) :
        it \in [name : {"Nasi Goreng", "Es Teh"}, quantity : {2}, price : {15000, None}]
               \cup [name : {"Nasi Goreng", "Es Teh"}, quantity : {2}]}
    \cup {Action("add", <<[name |-> "Nasi Goreng", quantity |-> 1, price |-> 15000],
                          [name |-> "Es Teh", quantity |-> 3]>>),
          Action("update", <<[name |-> "Nasi Goreng", quantity |-> 2]>>),
          Action("remove", <<[name |-> "Es Teh", quantity |-> 2]>>)}
    \cup {Paid(p) :
        p \in [amount : {40000}, change : {10000, 9990, 9989, 10010, 10011},
               method : {"cash"}]
              \cup {[amount |-> 40000, change |-> 10000],
                    [amount |-> 40000, method |-> "cash"],
                    [change |-> 10000, method |-> "cash"],
                    [amount |-> 0, change |-> 11, method |-> "cash"]}}
    \cup {With(Paid([amount |-> 40000, change |-> c, method |-> "cash"]),
               "orderAction", [type |-> "add", items |-> <<it>>]) :
            c \in {10000, 9989},
            it \in {[name |-> "Nasi Goreng", quantity |-> 2, price |-> 15000],
                    [quantity |-> 2, price |-> 15000]}}

\* Messages with the defects the validator looks for.
DefectMessages ==
    {PlainMessage,
     [text |-> "Halo", audioPath |-> "/tts/msg-1_seller.mp3"],
     [role |-> "", text |-> "Halo", audioPath |-> "/tts/msg-1_seller.mp3"],
     [role |-> "bot", text |-> "Halo", audioPath |-> "/tts/msg-1_seller.mp3"],
     [role |-> "seller", audioPath |-> "/tts/msg-1_seller.mp3"],
     [role |-> "seller", text |-> "", audioPath |-> "/tts/msg-1_seller.mp3"],
     [role |-> "seller", text |-> "Halo"],
     [role |-> "seller", text |-> "Halo", audioPath |-> ""],
     [role |-> "seller", text |-> "Halo", audioPath |-> "/tts/msg-9_seller.mp3"],
     [audioPath |-> "/tts/msg-9_seller.mp3"]}
    \cup {Action(t, <<it>>) :
            t \in {"add", "update", "remove", "replace"},
            it \in {[name |-> "Es Teh", quantity |-> 2, price |-> 4500],
                    [quantity |-> 2, price |-> 4500]}}
    \cup {Action("add", <<[name |-> "Es Teh", quantity |-> 2],
                          [price |-> 4500]>>),
          Action("add", <<[name |-> "Nasi Goreng", quantity |-> 1]>>),
          With(PlainMessage, "orderAction",
               [items |-> <<[name |-> "Es Teh", quantity |-> 2, price |-> 4500]>>]),
          With(PlainMessage, "orderAction", [type |-> "add"]),
          Action("ADD", <<[name |-> "Es Teh", quantity |-> 1, price |-> 4500]>>),
          With(Action("replace", <<[name |-> "Nasi Goreng", quantity |-> 1,
                                    price |-> 15000],
                                   [name |-> "Es Teh", quantity |-> 5]>>),
               "paymentReceived", [amount |-> 9000, change |-> 0, method |-> "cash"])}
    \cup {Paid(p) :
            p \in {[amount |-> 9000, change |-> 0, method |-> "cash"],
                   [amount |-> 9000, change |-> 0],
                   [amount |-> 9000, change |-> 500, method |-> "cash"],
                   [change |-> 0, method |-> "cash"],
                   [amount |-> 9000, method |-> "cash"],
                   [method |-> "cash"]}}

(***************************************************************************)
(* The state of validate_conversation.                                     *)
(***************************************************************************)
VARIABLES
    current_order,  \* list of entries {name, quantity, price}
    errors,         \* list of error texts
    warnings,       \* list of warning texts
    has_payment,
    i,              \* number of loop iterations started
    msg,            \* the message of the current loop iteration
    at_start,       \* current_order, errors, warnings at the top of the iteration
    pc,             \* "loop", "raised" (an exception left the function), "returned"
    ret,            \* the value returned: <<>> until the function returns
    scenario_name   \* the shipped scenario validated, "" for another scenario

(***************************************************************************)
(* The state of simulate_conversation.                                     *)
(***************************************************************************)
VARIABLES
    sim_order,      \* current_order of the replay: entries {name, quantity, price}
    sim_msg,        \* the message of the current loop iteration
    sim_call,       \* what the parse-order request of the iteration met
    result,         \* what test_parse_order returned: <<>> for None, <<body>>
    sim_start,      \* sim_order at the top of the iteration
    sim_pc,         \* "loop", "raised" (an exception left the function), "done"
    sim_n           \* number of loop iterations started

validator_vars ==
    <<current_order, errors, warnings, has_payment, i, msg, at_start, pc, ret,
      scenario_name>>

sim_vars == <<sim_order, sim_msg, sim_call, result, sim_start, sim_pc, sim_n>>

vars == <<current_order, errors, warnings, has_payment, i, msg, at_start, pc, ret,
          scenario_name,
          sim_order, sim_msg, sim_call, result, sim_start, sim_pc, sim_n>>

InitWith(name) ==
    /\ scenario_name = name
    /\ current_order = <<>>
    /\ errors = <<>>
    /\ warnings = <<>>
    /\ has_payment = FALSE
    /\ i = 0
    /\ msg = [id |-> "unbound"]
    /\ at_start = [order |-> <<>>, errors |-> <<>>, warnings |-> <<>>]
    /\ pc = "loop"
    /\ ret = <<>>
    /\ sim_order = <<>>
    /\ sim_msg = [id |-> "unbound"]
    /\ sim_call = [kind |-> "none"]
    /\ result = <<>>
    /\ sim_start = <<>>
    /\ sim_pc = "loop"
    /\ sim_n = 0

Init == InitWith("")

\* One iteration of `for i, msg in enumerate(scenario)`.  An exception raised
\* in the fold leaves the function before the payment block; one raised in
\* the print block leaves it after.
LoopBody(m) ==
    /\ pc = "loop"
    /\ LET fold   == IF Has(m, "orderAction")
                     THEN ApplyAction(current_order, m.orderAction)
                     ELSE [order |-> current_order, ok |-> TRUE]
           paid   == fold.ok /\ Has(m, "paymentReceived")
           errs   == RoleErrors(m) \o TextErrors(m) \o ActionErrors(m)
                     \o (IF paid THEN PaymentErrors(m.paymentReceived) ELSE <<>>)
           warns  == AudioWarnings(m) \o ActionWarnings(m)
                     \o (IF paid
                         THEN PaymentWarnings(fold.order, m.paymentReceived)
                         ELSE <<>>)
       IN  /\ i' = i + 1
           /\ msg' = m
           /\ at_start' = [order |-> current_order, errors |-> errors,
                           warnings |-> warnings]
           /\ current_order' = fold.order
           /\ errors' = errors \o errs
           /\ warnings' = warnings \o warns
           /\ has_payment' = (has_payment \/ paid)
           /\ pc' = IF fold.ok /\ ~PrintRaises(m) THEN "loop" ELSE "raised"
           /\ ret' = ret

\* An iteration on a message of a scenario of at most MaxMsgs messages.
ProcessMessage(m) ==
    /\ i < MaxMsgs
    /\ LoopBody(m)

\* A verdict that also wants the warning list empty.
VerdictStrict(errs) == Len(errs) = 0 /\ warnings = <<>>

\* return len(errors) == 0
Verdict(errs) == Len(errs) = 0

\* Return with the final check made on the last message only.
ReturnLastOnly ==
    /\ pc = "loop"
    /\ warnings' = IF Has(msg, "paymentReceived") THEN warnings
                   ELSE Append(warnings, "Scenario does not end with payment")
    /\ ret' = <<Verdict(errors)>>
    /\ pc' = "returned"
    /\ UNCHANGED <<current_order, errors, has_payment, i, msg, at_start>>

\* The end of the scenario: the final check, the summary and the return.
Return ==
    /\ pc = "loop"
    /\ warnings' = IF has_payment THEN warnings
                   ELSE Append(warnings, "Scenario does not end with payment")
    /\ ret' = <<Verdict(errors)>>
    /\ pc' = "returned"
    /\ UNCHANGED <<current_order, errors, has_payment, i, msg, at_start>>

\* Scenarios of well-formed order actions.
NextFold ==
    \/ \E m \in FoldMessages : ProcessMessage(m) /\ UNCHANGED <<sim_vars, scenario_name>>
    \/ Return /\ UNCHANGED <<sim_vars, scenario_name>>

SpecFold == Init /\ [][NextFold]_vars

\* Scenarios of orders and payments.
NextPay ==
    \/ \E m \in PaymentMessages : ProcessMessage(m) /\ UNCHANGED <<sim_vars, scenario_name>>
    \/ Return /\ UNCHANGED <<sim_vars, scenario_name>>

SpecPay == Init /\ [][NextPay]_vars

\* Scenarios with structural defects.
NextDefect ==
    \/ \E m \in DefectMessages : ProcessMessage(m) /\ UNCHANGED <<sim_vars, scenario_name>>
    \/ Return /\ UNCHANGED <<sim_vars, scenario_name>>

SpecDefect == Init /\ [][NextDefect]_vars

(***************************************************************************)
(* The scenarios shipped by create_sample_conversations                    *)
(* (scripts/generate_tts.py), prices in thousandths, texts cut short.      *)
(***************************************************************************)
Say(id, role, text) == [id |-> id, role |-> role, text |-> text]

Item(name, quantity, price) == [name |-> name, quantity |-> quantity, price |-> price]

Cash(amount, change) == [amount |-> amount, change |-> change, method |-> "CASH"]

SimpleOrder ==
    << Say("msg-1", "seller", "Good morning! Welcome to"),
       Say("msg-2", "customer", "Hi! I'd like two nasi gor"),
       With(Say("msg-3", "seller", "Perfect! I've added two n"), "orderAction",
            [type |-> "add", items |-> << Item("Nasi Goreng", 2, 15000),
                                          Item("Es Teh Manis", 1, 5000) >>]),
       Say("msg-4", "customer", "No, that's everything. Th"),
       Say("msg-5", "seller", "Wonderful! Your total com"),
       Say("msg-6", "customer", "Here's forty dollars cash"),
       With(Say("msg-7", "seller", "Payment received! Your ch"), "paymentReceived",
            Cash(40000, 5000)) >>

Negotiation ==
    << Say("msg-1", "seller", "Hello! Welcome back. What"),
       Say("msg-2", "customer", "I want three portions of"),
       Say("msg-3", "seller", "Sate ayam, excellent choi"),
       Say("msg-4", "customer", "How about eight dollars p"),
       With(Say("msg-5", "seller", "Eight dollars sounds fair"), "orderAction",
            [type |-> "add", items |-> << Item("Sate Ayam", 3, 8000) >>]),
       Say("msg-6", "customer", "Yes, add two es kopi susu"),
       Say("msg-7", "seller", "Es kopi susu, great! I ne"),
       Say("msg-8", "customer", "Let's say four fifty each"),
       With(Say("msg-9", "seller", "Perfect! Added two es kop"), "orderAction",
            [type |-> "add", items |-> << Item("Es Kopi Susu", 2, 4500) >>]),
       Say("msg-10", "customer", "That's all, thanks!"),
       Say("msg-11", "seller", "Excellent! Your final tot"),
       Say("msg-12", "customer", "Here's forty dollars cash"),
       With(Say("msg-13", "seller", "Payment received! Your ch"), "paymentReceived",
            Cash(40000, 7000)) >>

ComplexOrder ==
    << Say("msg-1", "seller", "Good afternoon! Ready to"),
       Say("msg-2", "customer", "I need five nasi goreng,"),
       With(Say("msg-3", "seller", "Got it! I've added five n"), "orderAction",
            [type |-> "add", items |-> << Item("Nasi Goreng", 5, 15000),
                                          Item("Ayam Goreng", 3, 12000),
                                          Item("Soto Ayam", 2, 10000) >>]),
       Say("msg-4", "customer", "Actually, make the nasi g"),
       With(Say("msg-5", "seller", "No problem! Updated nasi"), "orderAction",
            [type |-> "update", items |-> << Item("Nasi Goreng", 3, 15000) >>]),
       Say("msg-6", "customer", "And add four jus mangga p"),
       With(Say("msg-7", "seller", "Excellent! I've added fou"), "orderAction",
            [type |-> "add", items |-> << Item("Jus Mangga", 4, 5000) >>]),
       Say("msg-8", "customer", "Can you also add two keru"),
       Say("msg-9", "seller", "I don't have a price for"),
       Say("msg-10", "customer", "Two dollars each is fine."),
       With(Say("msg-11", "seller", "Perfect! Added two kerupu"), "orderAction",
            [type |-> "add", items |-> << Item("Kerupuk", 2, 2000) >>]),
       Say("msg-12", "customer", "Yes, that's all. Thank yo"),
       Say("msg-13", "seller", "Wonderful! One hundred tw"),
       Say("msg-14", "customer", "Here's one hundred fifty"),
       With(Say("msg-15", "seller", "Payment received! Your ch"), "paymentReceived",
            Cash(150000, 25000)) >>

SampleNames == {"simple_order", "negotiation", "complex_order"}

Sample(name) ==
    CASE name = "simple_order"  -> SimpleOrder
      [] name = "negotiation"   -> Negotiation
      [] name = "complex_order" -> ComplexOrder

\* A message is validated as shipped or with the audioPath the generator
\* gave it; the audio file is under TTS_DIR or is not.
AudioPaths == {"/tts/msg-1_seller.mp3", "/tts/msg-9_seller.mp3"}

\* An iteration on the next message of the shipped scenario.
ProcessSample ==
    /\ scenario_name \in SampleNames
    /\ i < Len(Sample(scenario_name))
    /\ \E m \in {Sample(scenario_name)[i + 1]}
                \cup {With(Sample(scenario_name)[i + 1], "audioPath", path) :
                         path \in AudioPaths} :
          LoopBody(m)
    /\ UNCHANGED scenario_name

\* The return at the end of the shipped scenario.
ReturnSample ==
    /\ scenario_name \in SampleNames
    /\ i = Len(Sample(scenario_name))
    /\ Return
    /\ UNCHANGED scenario_name

InitSample == \E name \in SampleNames : InitWith(name)

NextSample ==
    \/ ProcessSample /\ UNCHANGED sim_vars
    \/ ReturnSample /\ UNCHANGED sim_vars

SpecSample == InitSample /\ [][NextSample]_vars

(***************************************************************************)
(* The live replay: simulate_conversation and test_parse_order.            *)
(***************************************************************************)

\* next((o for o in current_order if o['name'].lower() == key), None)
SimExisting(order, key) ==
    LET hits == {k \in 1..Len(order) : Lower(order[k].name) = key}
    IN  IF hits = {} THEN 0 ELSE CHOOSE k \in hits : \A j \in hits : k <= j

\* item['name'] raises KeyError when the key is absent, as in the validator.
SimItemRaises(kind, order, item) ==
    /\ ~Has(item, "name")
    /\ (kind = "add" \/ order # <<>>)

\* The replay stores item.get('price'): None when the item has no price.
SimAddItem(order, item) ==
    LET e == SimExisting(order, Lower(item.name))
    IN  IF e # 0
        THEN [order EXCEPT ![e].quantity = @ + Get(item, "quantity", 1)]
        ELSE Append(order, [name     |-> item.name,
                            quantity |-> Get(item, "quantity", 1),
                            price    |-> Get(item, "price", None)])

SimUpdateItem(order, item) ==
    LET e == SimExisting(order, Lower(item.name))
    IN  IF e # 0
        THEN [order EXCEPT ![e].quantity = Get(item, "quantity", @)]
        ELSE order

\* SimRemoveItem that compares the names as written.
SimRemoveItemExact(order, item) ==
    SelectSeq(order, LAMBDA o : o.name # item.name)

SimRemoveItem(order, item) ==
    SelectSeq(order, LAMBDA o : Lower(o.name) # Lower(item.name))

\* One of the three loops of the replay over a list of items.
RECURSIVE SimApplyItems(_, _, _)
SimApplyItems(kind, order, items) ==
    IF items = <<>>
    THEN [order |-> order, ok |-> TRUE]
    ELSE IF SimItemRaises(kind, order, Head(items))
         THEN [order |-> order, ok |-> FALSE]
         ELSE LET next == CASE kind = "add"    -> SimAddItem(order, Head(items))
                            [] kind = "update" -> SimUpdateItem(order, Head(items))
                            [] kind = "remove" -> SimRemoveItem(order, Head(items))
              IN  SimApplyItems(kind, next, Tail(items))

\* actions.get(kind, []) of a response body.
ActionList(body, kind) ==
    IF Has(body, "actions") /\ Has(body.actions, kind)
    THEN body.actions[kind] ELSE <<>>

\* SimApplyResult with the removes applied before the adds and the updates.
SimApplyResultRemoveFirst(order, body) ==
    LET removed == SimApplyItems("remove", order, ActionList(body, "remove"))
        added   == SimApplyItems("add", removed.order,
                                 ActionList(body, "add") \o Get(body, "items", <<>>))
        updated == SimApplyItems("update", added.order, ActionList(body, "update"))
    IN  IF ~removed.ok THEN removed
        ELSE IF ~added.ok THEN added
        ELSE updated

\* The update of the order from a parse result: actions.add followed by the
\* top-level items as adds, then actions.update, then actions.remove.
SimApplyResult(order, body) ==
    LET added   == SimApplyItems("add", order,
                                 ActionList(body, "add") \o Get(body, "items", <<>>))
        updated == SimApplyItems("update", added.order, ActionList(body, "update"))
        removed == SimApplyItems("remove", updated.order, ActionList(body, "remove"))
    IN  IF ~added.ok THEN added
        ELSE IF ~updated.ok THEN updated
        ELSE removed

\* sum((item.get('price') or 0) * item['quantity']) of the final summary.
RECURSIVE SimTotal(_)
SimTotal(order) ==
    IF order = <<>> THEN 0
    ELSE (IF Has(Head(order), "price") /\ Head(order).price # None
          THEN Head(order).price ELSE 0) * Head(order).quantity
         + SimTotal(Tail(order))

\* test_parse_order that catches the connection error only: a timeout or
\* another exception leaves the function.
TestParseOrderUncaught(call) ==
    IF call.kind = "response" /\ call.ok
    THEN [raised |-> FALSE, value |-> <<call.body>>]
    ELSE [raised |-> call.kind \in {"timeout", "exception"}, value |-> <<>>]

\* test_parse_order: the body of a response with a success status, None
\* (<<>>) for every other response and for every exception of the request.
TestParseOrder(call) ==
    IF call.kind = "response" /\ call.ok
    THEN [raised |-> FALSE, value |-> <<call.body>>]
    ELSE [raised |-> FALSE, value |-> <<>>]

\* `if result:` is false for None and for an empty dict.
Truthy(value) == value # <<>> /\ DOMAIN value[1] # {}

\* The print block of the replay reads item['quantity'], item['name'],
\* payment['amount'], payment['change'] and payment['method'] without a
\* default.
SimPrintRaises(m) ==
    \/ /\ Has(m, "orderAction")
       /\ \E k \in 1..Len(Get(m.orderAction, "items", <<>>)) :
             \/ ~Has(m.orderAction.items[k], "quantity")
             \/ ~Has(m.orderAction.items[k], "name")
    \/ /\ Has(m, "paymentReceived")
       /\ \E f \in {"amount", "change", "method"} : ~Has(m.paymentReceived, f)

\* One iteration of `for msg in scenario`.  The request is sent for a
\* customer message only; `call` is what it meets.
SimMessage(m, call) ==
    /\ sim_pc = "loop"
    /\ sim_n < MaxMsgs
    /\ LET customer == Get(m, "role", "unknown") = "customer"
           parsed   == TestParseOrder(call)
           fold     == IF customer /\ ~parsed.raised /\ Truthy(parsed.value)
                       THEN SimApplyResult(sim_order, parsed.value[1])
                       ELSE [order |-> sim_order, ok |-> TRUE]
       IN  /\ sim_n' = sim_n + 1
           /\ sim_msg' = m
           /\ sim_start' = sim_order
           /\ sim_call' = IF customer THEN call ELSE [kind |-> "none"]
           /\ result' = IF customer /\ ~parsed.raised THEN parsed.value ELSE result
           /\ sim_order' = fold.order
           /\ sim_pc' = IF (customer /\ parsed.raised) \/ ~fold.ok \/ SimPrintRaises(m)
                        THEN "raised" ELSE "loop"

\* The end of the scenario: "Simulation Complete!" and the final summary.
SimFinish ==
    /\ sim_pc = "loop"
    /\ sim_pc' = "done"
    /\ UNCHANGED <<sim_order, sim_msg, sim_call, result, sim_start, sim_n>>

\* What a parse-order request can meet.
FailedCalls ==
    {[kind |-> "connection_error"], [kind |-> "timeout"], [kind |-> "exception"],
     [kind |-> "response", ok |-> FALSE, body |-> [error |-> "Internal Server Error"]]}

\* The bodies of the successful responses explored.
ResponseBodies ==
    {[actions |-> [add |-> <<[name |-> "Nasi Goreng", quantity |-> 2, price |-> 15000]>>]],
     [actions |-> [add |-> <<[name |-> "Es Teh"]>>]],
     [items |-> <<[name |-> "NASI GORENG", quantity |-> 1, price |-> 4500]>>],
     [actions |-> [add |-> <<[name |-> "Es Teh", quantity |-> 2, price |-> None]>>],
      items |-> <<[name |-> "ES TEH", quantity |-> 1]>>],
     [actions |-> [remove |-> <<[name |-> "Es Teh"]>>,
                   add |-> <<[name |-> "Es Teh", quantity |-> 2, price |-> 4500]>>]],
     [actions |-> [update |-> <<[name |-> "nasi goreng", quantity |-> 5]>>,
                   add |-> <<[name |-> "Nasi Goreng", quantity |-> 1, price |-> 15000]>>]],
     [actions |-> [update |-> <<[name |-> "Es Teh", quantity |-> 4, price |-> 9000]>>]],
     [actions |-> [update |-> <<[name |-> "Nasi Goreng"]>>,
                   remove |-> <<[name |-> "ES TEH", quantity |-> 1]>>]],
     [actions |-> [remove |-> <<[name |-> "NASI GORENG"]>>]],
     [actions |-> [add |-> <<[quantity |-> 1, price |-> 4500]>>]],
     [actions |-> [x \in {} |-> 0]],
     [x \in {} |-> 0]}

Calls ==
    FailedCalls \cup {[kind |-> "response", ok |-> TRUE, body |-> b] : b \in ResponseBodies}

\* The messages of the scenarios replayed.
SimMessages ==
    {[id |-> "msg-2", role |-> "customer", text |-> "Dua nasi goreng"],
     [id |-> "msg-3", role |-> "seller", text |-> "Baik",
      orderAction |-> [type |-> "add",
                       items |-> <<[name |-> "Nasi Goreng", quantity |-> 2, price |-> 15000]>>]],
     [id |-> "msg-4", text |-> "Halo"],
     [id |-> "msg-5", role |-> "seller", text |-> "Baik",
      orderAction |-> [type |-> "remove", items |-> <<[name |-> "Es Teh"]>>]],
     [id |-> "msg-7", role |-> "seller", text |-> "Terima kasih",
      paymentReceived |-> [amount |-> 40000, change |-> 10000, method |-> "CASH"]],
     [id |-> "msg-8", role |-> "customer", text |-> "Ini uangnya",
      paymentReceived |-> [amount |-> 40000, change |-> 10000]]}

NextSim ==
    \/ \E m \in SimMessages, call \in Calls :
          SimMessage(m, call) /\ UNCHANGED validator_vars
    \/ SimFinish /\ UNCHANGED validator_vars

SpecSim == Init /\ [][NextSim]_vars

(***************************************************************************)
(* The two drivers side by side: the same add, update or remove step is    *)
(* given to the validator as the orderAction of a message and to the       *)
(* replay as the answer of the parse-order call.                           *)
(***************************************************************************)

\* The well-formed steps explored: the type and the items of each.
Steps ==
    {[type |-> "add", items |-> <<it>>] :
        it \in {[name |-> "Nasi Goreng", quantity |-> 2, price |-> 15000],
                [name |-> "NASI GORENG", quantity |-> 1, price |-> 4500],
                [name |-> "Es Teh", quantity |-> 2, price |-> 4500],
                [name |-> "Es Teh", quantity |-> 1],
                [name |-> "Sate Ayam", quantity |-> 3, price |-> None],
                [name |-> "Nasi Goreng"]}}
    \cup {[type |-> "add", items |-> <<[name |-> "Es Teh", quantity |-> 2],
                                       [name |-> "Nasi Goreng", quantity |-> 1,
                                        price |-> 15000]>>],
          [type |-> "add", items |-> <<[name |-> "Sate Ayam", quantity |-> 1],
                                       [name |-> "Es Teh", quantity |-> 1,
                                        price |-> 4500],
                                       [name |-> "Sate Ayam", quantity |-> 2,
                                        price |-> 8000]>>]}
    \cup {[type |-> "update", items |-> <<it>>] :
            it \in {[name |-> "Nasi Goreng", quantity |-> 5],
                    [name |-> "NASI GORENG", quantity |-> 1, price |-> 9000],
                    [name |-> "Es Teh", quantity |-> 4],
                    [name |-> "Es Teh"],
                    [name |-> "Sate Ayam", quantity |-> 0]}}
    \cup {[type |-> "update", items |-> <<[name |-> "Es Teh", quantity |-> 3],
                                          [name |-> "Nasi Goreng", quantity |-> 4]>>]}
    \cup {[type |-> "remove", items |-> <<it>>] :
            it \in {[name |-> "Nasi Goreng"],
                    [name |-> "NASI GORENG", quantity |-> 2],
                    [name |-> "Es Teh", quantity |-> 1, price |-> 4500],
                    [name |-> "Sate Ayam"]}}
    \cup {[type |-> "remove", items |-> <<[name |-> "Es Teh"], [name |-> "Sate Ayam"]>>]}

\* The step as the orderAction of a scenario message.
StepMessage(step) ==
    [id |-> "msg-3", role |-> "seller", text |-> "Baik",
     orderAction |-> [type |-> step.type, items |-> step.items]]

\* The step as the body of a parse-order response: the list of its kind under
\* `actions`, or, for an add, the top-level `items` list.
StepBodies(step) ==
    {[actions |-> CASE step.type = "add"    -> [add |-> step.items]
                    [] step.type = "update" -> [update |-> step.items]
                    [] step.type = "remove" -> [remove |-> step.items]]}
    \cup (IF step.type = "add" THEN {[items |-> step.items]} ELSE {})

\* One message for each driver, carrying the same step.
BothStep(step) ==
    /\ ProcessMessage(StepMessage(step))
    /\ \E body \in StepBodies(step) :
          SimMessage([id |-> "msg-2", role |-> "customer", text |-> "Pesan"],
                     [kind |-> "response", ok |-> TRUE, body |-> body])
    /\ UNCHANGED scenario_name

\* Both drivers reach the end of their scenario.
BothEnd ==
    /\ Return
    /\ SimFinish
    /\ UNCHANGED scenario_name

NextBoth ==
    \/ \E step \in Steps : BothStep(step)
    \/ BothEnd

SpecBoth == Init /\ [][NextBoth]_vars

(***************************************************************************)
(* Properties.  msg and at_start describe the last loop iteration: the     *)
(* message it processed and the state it started from.                     *)
(***************************************************************************)

\* The last iteration ran to its end on a message with an action of type t.
IsAction(t) ==
    /\ i > 0
    /\ pc # "raised"
    /\ Has(msg, "orderAction")
    /\ ActionType(msg.orderAction) = t

\* The items of the action of the last message.
MsgItems == Get(msg.orderAction, "items", <<>>)

\* The positions of the entries of an order with the given lowercased name.
EntriesFor(order, key) == {k \in 1..Len(order) : Lower(order[k].name) = key}

\* C1: after an add action, every name of the action has exactly one entry
\* (names compared in lower case); its quantity is the quantity it had before
\* the action (0 if it was absent) plus the quantities of all items of that
\* name, a missing quantity counting as 1; its stored name is the one it had
\* before, or the name of the first such item if it was absent.  So two items
\* that differ only in case, in one action or in successive ones, leave one
\* entry with the summed quantity and the first casing.
CaseInsensitiveAggregation ==
    IsAction("add") =>
        LET items == MsgItems IN
        \A k \in 1..Len(items) :
            LET key    == Lower(items[k].name)
                same   == {j \in 1..Len(items) : Lower(items[j].name) = key}
                first  == CHOOSE j \in same : \A h \in same : j <= h
                before == EntriesFor(at_start.order, key)
                after  == EntriesFor(current_order, key)
                RECURSIVE Sum(_)
                Sum(n) == IF n = 0 THEN 0
                          ELSE (IF n \in same THEN Get(items[n], "quantity", 1) ELSE 0)
                               + Sum(n - 1)
            IN  /\ Cardinality(after) = 1
                /\ Cardinality(before) <= 1
                /\ \A a \in after :
                    /\ before = {} =>
                        /\ current_order[a].quantity = Sum(Len(items))
                        /\ current_order[a].name = items[first].name
                    /\ \A b \in before :
                        /\ current_order[a].quantity =
                              at_start.order[b].quantity + Sum(Len(items))
                        /\ current_order[a].name = at_start.order[b].name

\* C1 witness: one action adds "Nasi Goreng" x2 and "NASI GORENG" without a
\* quantity to an empty order, which then holds 3 x "Nasi Goreng".
AggregationWitness ==
    /\ IsAction("add")
    /\ Len(MsgItems) = 2
    /\ MsgItems[1].name = "Nasi Goreng"
    /\ MsgItems[2].name = "NASI GORENG"
    /\ ~Has(MsgItems[2], "quantity")
    /\ at_start.order = <<>>
    /\ Len(current_order) = 1
    /\ current_order[1].name = "Nasi Goreng"
    /\ current_order[1].quantity = 3

\* C2: no two entries of the order have the same lowercased name, and every
\* entry has a quantity, which is a number.
OrderInvariant ==
    /\ \A j, k \in 1..Len(current_order) :
          j # k => Lower(current_order[j].name) # Lower(current_order[k].name)
    /\ \A k \in 1..Len(current_order) :
          /\ Has(current_order[k], "quantity")
          /\ current_order[k].quantity \in Nat

\* C2 witness: a third action, a remove, has left one of two entries, after a
\* name was added in two casings.
OrderInvariantWitness ==
    /\ i = 3
    /\ IsAction("remove")
    /\ Len(at_start.order) = 2
    /\ Len(current_order) = 1
    /\ current_order[1].name = "NASI GORENG"
    /\ current_order[1].quantity > 2

\* C3: an entry that was in the order before a message and is in it after the
\* message has the price it had, and an add or update leaves every entry in
\* the order.
PriceImmutable ==
    (i > 0 /\ pc # "raised") =>
        \A b \in 1..Len(at_start.order) :
            LET after == EntriesFor(current_order, Lower(at_start.order[b].name))
            IN  /\ (IsAction("add") \/ IsAction("update")) => after # {}
                /\ \A a \in after : current_order[a].price = at_start.order[b].price

\* C3 witness: an update that carries price 15000 for an entry priced 4500 has
\* changed the quantity and left the price.
PriceImmutableWitness ==
    /\ IsAction("update")
    /\ \E k \in 1..Len(MsgItems) :
        /\ Has(MsgItems[k], "price")
        /\ MsgItems[k].price = 15000
        /\ \E b \in EntriesFor(at_start.order, Lower(MsgItems[k].name)) :
            /\ at_start.order[b].price = 4500
            /\ at_start.order[b].quantity # 5
            /\ current_order[b].price = 4500
            /\ current_order[b].quantity = 5

\* The warnings the last iteration appended.
NewWarnings ==
    SubSeq(warnings, Len(at_start.warnings) + 1,
           Len(warnings) - (IF pc = "returned" /\ ~has_payment THEN 1 ELSE 0))

\* The number of positions of a list that hold the given text.
Count(list, text) == Cardinality({k \in 1..Len(list) : list[k] = text})

\* C4 as the specification states it: a remove action none of whose names
\* matches an entry leaves the order as it was and adds nothing to the error
\* list; any remove action leaves exactly the entries whose lowercased name is
\* not the lowercased name of one of its items, unchanged and in their order.
NoOpRemoval ==
    IsAction("remove") =>
        LET items == MsgItems
            keys  == {Lower(items[k].name) : k \in 1..Len(items)}
        IN  /\ (\A key \in keys : EntriesFor(at_start.order, key) = {}) =>
                  /\ current_order = at_start.order
                  /\ errors = at_start.errors
            /\ current_order =
                  SelectSeq(at_start.order, LAMBDA o : Lower(o.name) \notin keys)

\* C5 as the specification states it: an update action none of whose names
\* matches an entry leaves the order as it was and adds nothing to the error
\* list; any update action keeps the entries, their names and their prices,
\* and gives each entry the quantity of the last item of its name that carries
\* one, or leaves its quantity when no item of its name carries one.
NoOpUpdate ==
    IsAction("update") =>
        LET items == MsgItems
            keys  == {Lower(items[k].name) : k \in 1..Len(items)}
        IN  /\ (\A key \in keys : EntriesFor(at_start.order, key) = {}) =>
                  /\ current_order = at_start.order
                  /\ errors = at_start.errors
            /\ Len(current_order) = Len(at_start.order)
            /\ \A b \in 1..Len(at_start.order) :
                  LET given == {k \in 1..Len(items) :
                                   /\ Lower(items[k].name) = Lower(at_start.order[b].name)
                                   /\ Has(items[k], "quantity")}
                  IN  /\ current_order[b].name = at_start.order[b].name
                      /\ current_order[b].price = at_start.order[b].price
                      /\ given = {} =>
                            current_order[b].quantity = at_start.order[b].quantity
                      /\ \A k \in given :
                            (\A j \in given : j <= k) =>
                                current_order[b].quantity = items[k].quantity

\* C6: the total of the order is the sum of price times quantity over the
\* entries that have a price, null counting as no price; an entry created by
\* an item without a price (absent or null) has no price or price 0, so that
\* an add that only creates such entries leaves the total as it was; and
\* an add puts one missing-price warning per item without a `price` key among
\* the warnings and none among the errors.
TotalComputation ==
    LET priced == {k \in 1..Len(current_order) :
                      Has(current_order[k], "price") /\ current_order[k].price # None}
        RECURSIVE SumOver(_)
        SumOver(S) ==
            IF S = {} THEN 0
            ELSE LET k == CHOOSE x \in S : TRUE
                 IN  current_order[k].price * current_order[k].quantity
                     + SumOver(S \ {k})
    IN  /\ Total(current_order) = SumOver(priced)
        /\ IsAction("add") =>
            LET items   == MsgItems
                noprice == {k \in 1..Len(items) : ~Has(items[k], "price")}
                nullish == {k \in 1..Len(items) :
                               Has(items[k], "price") /\ items[k].price = None}
                fresh   == {k \in noprice \cup nullish :
                               /\ EntriesFor(at_start.order, Lower(items[k].name)) = {}
                               /\ \A j \in 1..(k - 1) :
                                     Lower(items[j].name) # Lower(items[k].name)}
            IN  /\ \A k \in fresh :
                      \A a \in EntriesFor(current_order, Lower(items[k].name)) :
                          a \in priced => current_order[a].price = 0
                /\ (fresh = 1..Len(items)) =>
                       Total(current_order) = Total(at_start.order)
                /\ Count(NewWarnings, "Order item missing 'price'")
                       = Cardinality(noprice)
                /\ Count(errors, "Order item missing 'price'") = 0

\* C6 witness: an add of an item without a price has put a new entry in an
\* order whose total was not 0, with a warning and the same total.
TotalWitness ==
    /\ IsAction("add")
    /\ Len(MsgItems) = 1
    /\ ~Has(MsgItems[1], "price")
    /\ Total(at_start.order) > 0
    /\ Len(current_order) = Len(at_start.order) + 1
    /\ Total(current_order) = Total(at_start.order)
    /\ Count(NewWarnings, "Order item missing 'price'") = 1

\* C7: after a message with a payment, processed with a non-empty order, the
\* warnings of the message hold a change mismatch exactly when
\* amount - total - change is beyond the tolerance in either direction (a
\* missing amount or change read as 0), with the total of the order after the
\* message; with an empty order they hold none; the errors never hold one.
PaymentTolerance ==
    (i > 0 /\ pc # "raised" /\ Has(msg, "paymentReceived")) =>
        LET payment == msg.paymentReceived
            diff    == Get(payment, "amount", 0) - Total(current_order)
                       - Get(payment, "change", 0)
            flagged == Count(NewWarnings, "Change mismatch")
        IN  /\ current_order # <<>> =>
                  flagged = IF diff > Tolerance \/ diff < -Tolerance THEN 1 ELSE 0
            /\ current_order = <<>> => flagged = 0
            /\ Count(errors, "Change mismatch") = 0

\* C7 witness: a payment whose change is off by exactly the tolerance, on a
\* non-empty order, has raised no mismatch warning.
PaymentToleranceWitness ==
    /\ i > 0
    /\ pc # "raised"
    /\ Has(msg, "paymentReceived")
    /\ Has(msg.paymentReceived, "amount")
    /\ Has(msg.paymentReceived, "change")
    /\ current_order # <<>>
    /\ msg.paymentReceived.amount - Total(current_order) - msg.paymentReceived.change
          = Tolerance
    /\ Count(NewWarnings, "Change mismatch") = 0

\* C8: when validate_conversation has returned, the value returned is true
\* exactly when the error list is empty, whatever the warning list holds.
VerdictIsNoErrors ==
    pc = "returned" => ret = <<errors = <<>>>>

\* C8 witness: a scenario with several warnings and no error has returned
\* true.
VerdictWitness ==
    /\ pc = "returned"
    /\ ret = <<TRUE>>
    /\ errors = <<>>
    /\ Len(warnings) >= 3
    /\ Count(warnings, "Change mismatch") = 1

\* C9 as the specification states it: a message with a structural error has
\* its error recorded, does not stop the pass (no exception leaves the
\* function), and the verdict returned is false.
StructuralErrorsNotFatal ==
    (i > 0 /\ (RoleErrors(msg) \o TextErrors(msg) \o ActionErrors(msg)) # <<>>) =>
        /\ Len(errors) > Len(at_start.errors)
        /\ pc # "raised"
        /\ pc = "returned" => ret = <<FALSE>>

\* C10 as the specification states it: an order item with a name and without
\* a quantity adds no error (here every other field of the message is in
\* order), the add counts it as 1, and the scenario is returned valid.
MissingQuantityIsWarning ==
    /\ (i > 0 /\ Has(msg, "orderAction")) =>
          LET items == MsgItems
          IN  (\E k \in 1..Len(items) : ~Has(items[k], "quantity")) =>
                  /\ errors = at_start.errors
                  /\ Len(NewWarnings) > 0
    /\ pc = "returned" => ret = <<TRUE>>

\* C11: has_payment becomes true at the first message that carries a payment
\* and stays true; when the function has returned, the warnings hold
\* "Scenario does not end with payment" exactly once, in the last place, if no
\* message carried a payment, and not at all if one did, at any position;
\* without errors the value returned is true either way.
MissingPaymentAdvisory ==
    /\ [][ /\ (i' = i + 1 /\ pc' = "loop") =>
                (has_payment' <=> (has_payment \/ Has(msg', "paymentReceived")))
           /\ i' = i => has_payment' = has_payment ]_vars
    /\ [](pc = "returned" =>
            /\ Count(warnings, "Scenario does not end with payment")
                  = IF has_payment THEN 0 ELSE 1
            /\ ~has_payment =>
                  warnings[Len(warnings)] = "Scenario does not end with payment"
            /\ errors = <<>> => ret = <<TRUE>>)

\* C11 witness: a scenario of three messages, none with a payment and none
\* with an error, has returned true with the warning in the last place.
MissingPaymentWitness ==
    /\ pc = "returned"
    /\ i = 3
    /\ ~has_payment
    /\ errors = <<>>
    /\ ret = <<TRUE>>
    /\ Count(warnings, "Scenario does not end with payment") = 1
    /\ warnings[Len(warnings)] = "Scenario does not end with payment"

\* The last iteration of the replay sent a request.
Called == sim_n > 0 /\ sim_call.kind # "none"

\* The request of the last iteration was answered with a success status.
Answered == Called /\ sim_call.kind = "response" /\ sim_call.ok

\* C12: when the parse-order request of a customer message fails (connection
\* error, timeout, another exception, a non-success status), test_parse_order
\* returns None, the order of the replay is the one the iteration started
\* with, and no exception leaves the replay unless the print block of the
\* message itself raises one; so the failure never ends the replay.
CallFailureNotFatal ==
    (Called /\ ~Answered) =>
        /\ result = <<>>
        /\ sim_order = sim_start
        /\ sim_pc = "raised" => SimPrintRaises(sim_msg)

\* C12 witness: the replay has reached its summary after three messages, the
\* last request having timed out with an order in place.
CallFailureWitness ==
    /\ sim_pc = "done"
    /\ sim_n = 3
    /\ Called
    /\ sim_call.kind = "timeout"
    /\ sim_order # <<>>
    /\ sim_order = sim_start

\* C13: after a successful parse response the order of the replay is the one
\* adds, then updates, then removes give: its names are those it had and
\* those of actions.add and of the top-level items, without those of
\* actions.remove; the quantity of an entry is that of the last update item of
\* its name that carries one, or else what it had (0 for a new entry) plus the
\* quantities of the add items of its name.  So a name both added and removed
\* is absent, and an update of a name added by the same response takes effect.
FixedFoldOrder ==
    (Answered /\ Truthy(<<sim_call.body>>) /\ sim_pc # "raised") =>
        LET body    == sim_call.body
            adds    == ActionList(body, "add") \o Get(body, "items", <<>>)
            updates == ActionList(body, "update")
            removes == ActionList(body, "remove")
            KeysOf(list) == {Lower(list[k].name) : k \in 1..Len(list)}
            RECURSIVE Added(_, _)
            Added(key, n) ==
                IF n = 0 THEN 0
                ELSE (IF Lower(adds[n].name) = key
                      THEN Get(adds[n], "quantity", 1) ELSE 0) + Added(key, n - 1)
        IN  /\ KeysOf(sim_order) = (KeysOf(sim_start) \cup KeysOf(adds)) \ KeysOf(removes)
            /\ \A e \in 1..Len(sim_order) :
                LET key   == Lower(sim_order[e].name)
                    given == {k \in 1..Len(updates) :
                                 Lower(updates[k].name) = key /\ Has(updates[k], "quantity")}
                    had   == EntriesFor(sim_start, key)
                IN  /\ given = {} =>
                          /\ had = {} => sim_order[e].quantity = Added(key, Len(adds))
                          /\ \A b \in had :
                                sim_order[e].quantity
                                   = sim_start[b].quantity + Added(key, Len(adds))
                    /\ \A k \in given :
                          (\A j \in given : j <= k) =>
                              sim_order[e].quantity = updates[k].quantity

\* C13 witness: a response that adds and removes "Es Teh" has left an order
\* without it, and with the entry it had.
FixedFoldOrderWitness ==
    /\ Answered
    /\ sim_pc # "raised"
    /\ ActionList(sim_call.body, "add") # <<>>
    /\ ActionList(sim_call.body, "remove") # <<>>
    /\ Lower(ActionList(sim_call.body, "add")[1].name) = "es teh"
    /\ Lower(ActionList(sim_call.body, "remove")[1].name) = "es teh"
    /\ EntriesFor(sim_order, "es teh") = {}
    /\ sim_order # <<>>

\* C14: on the shipped scenarios the total of the order is, for
\* "complex_order", 131 after the add of message 3, 101 after the update of
\* message 5, 121 after the add of message 7 and 125 after the add of message
\* 11; for "simple_order" 35 after message 3; for "negotiation" 24 after
\* message 5 and 33 after message 9; no payment raises a change mismatch, no
\* message raises an error or an exception, and the value returned is true.
SampleScenarios ==
    scenario_name \in SampleNames =>
        /\ scenario_name = "complex_order" =>
              Total(current_order) =
                  CASE i < 3  -> 0
                    [] i \in 3..4  -> 131000
                    [] i \in 5..6  -> 101000
                    [] i \in 7..10 -> 121000
                    [] OTHER       -> 125000
        /\ scenario_name = "simple_order" =>
              Total(current_order) = IF i < 3 THEN 0 ELSE 35000
        /\ scenario_name = "negotiation" =>
              Total(current_order) =
                  CASE i < 5 -> 0 [] i \in 5..8 -> 24000 [] OTHER -> 33000
        /\ Count(warnings, "Change mismatch") = 0
        /\ errors = <<>>
        /\ pc # "raised"
        /\ i = Len(Sample(scenario_name)) => has_payment
        /\ pc = "returned" => ret = <<TRUE>>

\* C14 witness: "complex_order" has been validated to its end, with the
\* payment of 150 and the change of 25 checked against the total of 125.
SampleScenariosWitness ==
    /\ scenario_name = "complex_order"
    /\ pc = "returned"
    /\ i = 15
    /\ has_payment
    /\ msg.paymentReceived.amount = 150000
    /\ msg.paymentReceived.change = 25000
    /\ Total(current_order) = 125000
    /\ ret = <<TRUE>>

\* C15: after the same well-formed add, update and remove steps from an empty
\* order, the order of the validator and the order of the replay have the same
\* length and, position by position, the same name and the same quantity; the
\* price is the same, or 0 in the validator where the replay holds none; the
\* two totals are equal; and neither driver has raised.
SameFold ==
    /\ Len(current_order) = Len(sim_order)
    /\ \A k \in 1..Len(current_order) :
          k <= Len(sim_order) =>
              /\ current_order[k].name = sim_order[k].name
              /\ current_order[k].quantity = sim_order[k].quantity
              /\ \/ current_order[k].price = sim_order[k].price
                 \/ current_order[k].price = 0 /\ sim_order[k].price = None
    /\ Total(current_order) = SimTotal(sim_order)
    /\ i = sim_n
    /\ pc # "raised"
    /\ sim_pc # "raised"

\* C15 witness: three steps ending with a remove have left both drivers with
\* two entries, one of them without a price: 0 in the validator, none in the
\* replay, and a total above zero.
SameFoldWitness ==
    /\ i = 3
    /\ sim_n = 3
    /\ IsAction("remove")
    /\ Has(sim_call, "body")
    /\ Has(sim_call.body, "actions")
    /\ Has(sim_call.body.actions, "remove")
    /\ Len(current_order) = 2
    /\ Len(sim_order) = 2
    /\ \E k \in 1..2 : current_order[k].price = 0 /\ sim_order[k].price = None
    /\ Total(current_order) > 0
    /\ Len(at_start.order) = 3

\* The errors appended by the last iteration.
NewErrors == SubSeq(errors, Len(at_start.errors) + 1, Len(errors))

\* C16: a message whose orderAction has a type other than add, update and
\* remove, or no type, gets exactly one invalid-type error and leaves the
\* order as it was at the start of the iteration, whatever its items; a payment
\* of the same message is checked against the total of that order.
InvalidTypeChangesNothing ==
    (/\ i > 0
     /\ Has(msg, "orderAction")
     /\ ActionType(msg.orderAction) \notin ValidTypes) =>
        /\ Count(NewErrors, "Invalid orderAction type") = 1
        /\ current_order = at_start.order
        /\ Total(current_order) = Total(at_start.order)
        /\ Has(msg, "paymentReceived") =>
              /\ has_payment
              /\ (Count(NewWarnings, "Change mismatch") = 1) <=>
                     (/\ at_start.order # <<>>
                      /\ Mismatch(at_start.order, msg.paymentReceived))

\* C16 witness: on an order of 2 Es Teh at 4.5 a "replace" action with two
\* items and a payment of 9 with change 0 has been processed: one invalid-type
\* error, the order as before, no change mismatch.
InvalidTypeWitness ==
    /\ i > 1
    /\ pc = "loop"
    /\ Has(msg, "orderAction")
    /\ ActionType(msg.orderAction) = "replace"
    /\ Len(MsgItems) = 2
    /\ Has(msg, "paymentReceived")
    /\ Total(at_start.order) = 9000
    /\ current_order = at_start.order
    /\ Count(NewErrors, "Invalid orderAction type") = 1
    /\ Count(NewWarnings, "Change mismatch") = 0

====
